---------------------------- MODULE Spec2Model ----------------------------
(***************************************************************************)
(* State-machine model of the chat client (uplabhijit/ai-chat): the        *)
(* streaming request controller of the App component (handleSubmit,        *)
(* handleCancel, the 30 s timer), the frame decoding done inside its read  *)
(* loop, and the in-memory conversation store (chats / activeChat).        *)
(*                                                                         *)
(* React state is modelled by the committed value of each useState cell.   *)
(* One action is one synchronous run of a handler or of the continuation   *)
(* of an async handler between two awaits; the set-state calls of that run *)
(* are applied in program order.  A running handleSubmit keeps the values  *)
(* it closed over (activeChat, newMessages, fullResponse, timeoutId and    *)
(* its abort signal): they are the fields of its record in sends.          *)
(*                                                                         *)
(* Text is a sequence of one-character strings.  The rejection caused by   *)
(* abort() is delivered to the awaiting handler as a later step, so other  *)
(* handlers may run between the abort and the catch block.  Date.now() is  *)
(* read from now; the clock advances in the specifications of the          *)
(* persistence layer and of the chat list.                                 *)
(***************************************************************************)
EXTENDS Integers, Sequences, FiniteSets, TLC

(* ------------------------------ bounds -------------------------------- *)

\* number of sends (handleSubmit runs that reach the request) in one run
MaxSends == 2

\* the same, for the runs checked for liveness
LiveSends == 1

(* ------------------------- program constants -------------------------- *)

\* input.trim().slice(0, 30)
NameLen == 30

(* ------------------------------- text --------------------------------- *)

SP == " "
NL == "\n"

IsPrefix(s, t) == Len(s) <= Len(t) /\ SubSeq(t, 1, Len(s)) = s

RECURSIVE TrimStart(_)
TrimStart(s) == IF s # <<>> /\ Head(s) \in {SP, NL} THEN TrimStart(Tail(s)) ELSE s

RECURSIVE TrimEnd(_)
TrimEnd(s) ==
    IF s # <<>> /\ s[Len(s)] \in {SP, NL} THEN TrimEnd(SubSeq(s, 1, Len(s) - 1)) ELSE s

\* String.prototype.trim
Trim(s) == TrimEnd(TrimStart(s))

\* String.prototype.slice(0, n)
Slice0(s, n) == SubSeq(s, 1, IF Len(s) < n THEN Len(s) ELSE n)

\* String.prototype.split('\n'): the pieces between newlines, the piece after
\* the last newline included (possibly empty)
RECURSIVE SplitFrom(_, _)
SplitFrom(s, cur) ==
    IF s = <<>> THEN <<cur>>
    ELSE IF Head(s) = NL THEN <<cur>> \o SplitFrom(Tail(s), <<>>)
    ELSE SplitFrom(Tail(s), Append(cur, Head(s)))

SplitLines(s) == SplitFrom(s, <<>>)

RECURSIVE Concat(_)
Concat(ss) == IF ss = <<>> THEN <<>> ELSE Head(ss) \o Concat(Tail(ss))

\* a text of n characters
Repeat(c, n) == [i \in 1..n |-> c]

(* ------------------------------ records ------------------------------- *)

Msg(r, c) == [role |-> r, content |-> c]

\* a fixed description is a text too; it is kept as a single token
Txt(str) == <<str>>

CancelledText == Txt("Request was cancelled.")
TimedOutText == Txt("Request timed out. The model is taking too long to respond.")
ConnectText ==
    Txt("Could not connect to Ollama. Please check: 1. Is Ollama running? 2. Is the model installed?")
FallbackText == Txt("Sorry, there was an error processing your request.")
Api404Text == Txt("Cannot connect to Ollama API. Please check if Ollama is running.")
Api500Text == Txt("Ollama server error. Please check server logs.")
FailedToFetch == Txt("Failed to fetch")

VARIABLES
    messages,     \* useState: the visible message buffer
    input,        \* useState: the text of the input field
    isLoading,    \* useState: the busy indicator
    error,        \* useState: the banner, <<>> for null
    chats,        \* useState: the conversation store
    activeChat,   \* useState: <<>> for null, else <<chat>>
    ctrlRef,      \* abortControllerRef.current: 0 for null, else the send that made it
    sends,        \* the handleSubmit runs, in start order
    nextId,       \* generateId: ids already handed out are below it
    now           \* Date.now()

\* localStorage, and what the last call of the persistence layer gave back
VARIABLES
    lsChats,      \* the item 'ollama-chats': the primary snapshot
    lsBackup,     \* the item 'ollama-backup'
    lsLastBackup, \* the item 'ollama-last-backup': <<>> for none, else <<time>>
    op,           \* the last call: "none", "save", "load" or "tick"
    saveRet,      \* how the last saveChats ended
    loadRet       \* how the last loadChats ended

\* the settings, and the item 'ollama-settings' (<<>> for none, else <<object>>)
VARIABLES
    selectedModel, \* useState
    temperature,   \* useState, in tenths
    showSidebar,   \* useState
    lsSettings

settingsVars == <<selectedModel, temperature, showSidebar, lsSettings>>

\* how many times the user has acted on the chat list or picked a file to import
VARIABLE listOps

uiVars == <<settingsVars, listOps>>

storeVars == <<lsChats, lsBackup, lsLastBackup, op, saveRet, loadRet, uiVars>>

vars == <<messages, input, isLoading, error, chats, activeChat, ctrlRef,
          sends, nextId, now, storeVars>>

\* localStorage.getItem gives null for the item
Absent == [kind |-> "absent", data |-> <<>>, length |-> 0]

\* no call yet
NoRet == [kind |-> "none", value |-> <<>>, path |-> "none", wrote |-> FALSE,
          backup |-> FALSE]


\* the defaults of lines 33-36 (the temperature 0.7 in tenths)
DefaultModel == "llama3.2:latest"
DefaultTemperature == 7

\* the object the save-settings effect (lines 46-52) hands to saveSettings
SettingsObject(model, temp, sidebar) ==
    [selectedModel |-> model, temperature |-> temp, showSidebar |-> sidebar]

\* the settings of a first visit, saved by the effect when the page mounts;
\* the user has not acted yet
InitSettings ==
    /\ selectedModel = DefaultModel
    /\ temperature = DefaultTemperature
    /\ showSidebar = TRUE
    /\ lsSettings = <<SettingsObject(DefaultModel, DefaultTemperature, TRUE)>>
    /\ listOps = 0

(* --------------------------- frame decoding --------------------------- *)

\* String.prototype.includes on a text of tokens
Includes(text, needle) == \E k \in 1..Len(text) : text[k] = needle

\* the characters a text delta is made of
DeltaChars == {"a", "b"}

Invalid == [ok |-> FALSE, error |-> <<>>, response |-> <<>>]

\* JSON.parse(line) for the records of the stream: "{" delta "}" stands for
\* {"response": delta}, "{E}" for {"error": "E"}; anything else is no JSON
\* text and makes JSON.parse throw (ok = FALSE).  Surrounding white space is
\* accepted, as JSON.parse does.
ParseLine(line) ==
    LET t == Trim(line) IN
    IF Len(t) >= 2 /\ t[1] = "{" /\ t[Len(t)] = "}"
    THEN LET p == SubSeq(t, 2, Len(t) - 1) IN
         IF p = <<"E">> THEN [ok |-> TRUE, error |-> <<"E">>, response |-> <<>>]
         ELSE IF \A k \in 1..Len(p) : p[k] \in DeltaChars
              THEN [ok |-> TRUE, error |-> <<>>, response |-> p]
              ELSE Invalid
    ELSE Invalid

\* a read loop whose catch lets the exception go on to the outer catch
InnerCatchRethrow(acc, e) == [acc EXCEPT !.thrown = e]

\* catch (e) { console.warn(...) } of the read loop: the exception is dropped
InnerCatch(acc, e) == acc

\* a loop body that assigns the delta to fullResponse instead of adding it
LineStepOverwrite(acc, line) ==
    IF acc.thrown # <<>> THEN acc
    ELSE IF Trim(line) = <<>> THEN acc
    ELSE LET json == ParseLine(line) IN
         IF ~json.ok THEN InnerCatch(acc, Txt("SyntaxError"))
         ELSE IF json.error # <<>> THEN InnerCatch(acc, json.error)
         ELSE IF json.response # <<>>
              THEN [acc EXCEPT !.full = json.response,
                               !.writes = Append(@, json.response)]
              ELSE acc

\* the body of `for (const line of lines)`: acc.full is fullResponse,
\* acc.writes the contents handed to setMessages/updateChat so far in this
\* chunk, acc.thrown an exception that left the loop (<<>> for none)
LineStep(acc, line) ==
    IF acc.thrown # <<>> THEN acc
    ELSE IF Trim(line) = <<>> THEN acc
    ELSE LET json == ParseLine(line) IN
         IF ~json.ok THEN InnerCatch(acc, Txt("SyntaxError"))
         ELSE IF json.error # <<>> THEN InnerCatch(acc, json.error)
         ELSE IF json.response # <<>>
              THEN LET full == acc.full \o json.response IN
                   [acc EXCEPT !.full = full, !.writes = Append(@, full)]
              ELSE acc

RECURSIVE FoldLines(_, _)
FoldLines(acc, lines) ==
    IF lines = <<>> THEN acc ELSE FoldLines(LineStep(acc, Head(lines)), Tail(lines))

\* one pass of the while loop after reader.read() returned a chunk:
\* decode, split on newline, run the loop body over the pieces
ProcessChunk(chunk, fullResponse) ==
    FoldLines([full |-> fullResponse, writes |-> <<>>, thrown |-> <<>>],
              SplitLines(chunk))

(* ----------------------------- environment ---------------------------- *)

\* what the input field may be set to
Inputs == { <<SP>>, <<SP>> \o Repeat("y", NameLen + 1) \o <<SP>> }

\* what one reader.read() may deliver
ChunkA == <<"{", "a", "}", NL>>
ChunkBadB == <<"x", NL, "{", "}", NL, "{", "b", "}", NL>>
ChunkHead == <<"{", "a">>
ChunkTail == <<"}", NL>>
ChunkErr == <<"{", "E", "}", NL>>

\* the bodies a 2xx response may stream, as the chunks successive read()
\* calls deliver: a record, then a malformed line, an empty delta and a
\* record; one record cut in two by a chunk boundary; an error record
Streams == { <<ChunkA, ChunkBadB>>, <<ChunkHead, ChunkTail>>, <<ChunkErr>> }

\* non-2xx responses: status, whether the body is JSON, its error field, its text
NoResp == [status |-> 0, json |-> FALSE, err |-> <<>>, text |-> <<>>]
Responses ==
    { [status |-> 404, json |-> TRUE, err |-> <<"model", " not found">>,
       text |-> <<"{error: model not found}">>],
      [status |-> 500, json |-> FALSE, err |-> <<>>, text |-> <<"oops">>] }

\* the message of the TypeError a failed fetch rejects with
TransportErrors == {FailedToFetch}

(* -------------------------- conversation store ------------------------ *)

Last(s) == s[Len(s)]

NewChat(id, name, t) ==
    [id |-> id, name |-> name, messages |-> <<>>, createdAt |-> t, updatedAt |-> t]

\* updateChat(messages) as run by a handler that closed over activeChat = cap:
\* the values of chats and activeChat after its set-state calls
UpdateChat(cap, msgs, cs, ac, t) ==
    IF cap = <<>> THEN [chats |-> cs, active |-> ac]
    ELSE LET updatedChat == [cap[1] EXCEPT !.messages = msgs, !.updatedAt = t] IN
         [chats |-> [k \in DOMAIN cs |->
                        IF cs[k].id = updatedChat.id THEN updatedChat ELSE cs[k]],
          active |-> <<updatedChat>>]

\* the chat a stored snapshot may hold at startup
StoredChat ==
    [id |-> 1, name |-> <<"o">>,
     messages |-> <<Msg("user", <<"q">>), Msg("assistant", <<"r">>)>>,
     createdAt |-> 0, updatedAt |-> 0]

Init ==
    /\ \E st \in { [chats |-> <<>>, active |-> <<>>],
                   [chats |-> <<StoredChat>>, active |-> <<>>],
                   [chats |-> <<StoredChat>>, active |-> <<StoredChat>>] } :
         /\ chats = st.chats
         /\ activeChat = st.active
         /\ messages = (IF st.active = <<>> THEN <<>> ELSE st.active[1].messages)
    /\ input = <<>>
    /\ isLoading = FALSE
    /\ error = <<>>
    /\ ctrlRef = 0
    /\ sends = <<>>
    /\ nextId = 2
    /\ now = 0
    /\ lsChats = Absent
    /\ lsBackup = Absent
    /\ lsLastBackup = <<>>
    /\ op = "none"
    /\ saveRet = NoRet
    /\ loadRet = NoRet
    /\ InitSettings


(* ------------------------- the running sends -------------------------- *)

Pending == {"fetch", "text", "read"}

\* a handleSubmit that never starts its timer
ArmTimeoutNever == "off"

\* setTimeout(..., 30000) of handleSubmit: the state of the new timer
ArmTimeout == "armed"

\* a handleSubmit whose fullResponse goes on from the assistant message the
\* conversation already ends with
StartedSendContinuing(cap, target, newMessages, signal) ==
    [pc |-> "fetch", cap |-> cap, target |-> target, newMessages |-> newMessages,
     fullResponse |->
         LET before == SelectSeq(newMessages, LAMBDA m : m.role = "assistant")
         IN IF before = <<>> THEN <<>> ELSE before[Len(before)].content,
     timer |-> ArmTimeout, signal |-> signal,
     resp |-> NoResp, rest |-> <<>>, chunks |-> <<>>, writes |-> <<>>]

\* the record of a handleSubmit run that has issued its request.  rest is
\* what the response body still holds; chunks and writes are the history of
\* the run: the chunks read so far and the contents written as the assistant
\* message so far; target is the id of the conversation the send is for
StartedSend(cap, target, newMessages, signal) ==
    [pc |-> "fetch", cap |-> cap, target |-> target, newMessages |-> newMessages,
     fullResponse |-> <<>>, timer |-> ArmTimeout, signal |-> signal,
     resp |-> NoResp, rest |-> <<>>, chunks |-> <<>>, writes |-> <<>>]

\* a finally block without clearTimeout
FinishedSendTimerLeft(s) ==
    [pc |-> "done", cap |-> <<>>, target |-> 0, newMessages |-> <<>>,
     fullResponse |-> <<>>, timer |-> s.timer, signal |-> "live",
     resp |-> NoResp, rest |-> <<>>, chunks |-> <<>>, writes |-> <<>>]

\* a run that has returned: its closure is released, and nothing reads the
\* signal of its controller any more
FinishedSend(s) ==
    [pc |-> "done", cap |-> <<>>, target |-> 0, newMessages |-> <<>>,
     fullResponse |-> <<>>, timer |-> "off", signal |-> "live",
     resp |-> NoResp, rest |-> <<>>, chunks |-> <<>>, writes |-> <<>>]

\* an abort() that leaves the signal as it was
AbortNothing(ss, c, why) == ss

\* AbortController.abort() on the controller made by send c (0: no controller):
\* only the first call changes the signal, and the signal of a request that
\* has returned has no reader left
Abort(ss, c, why) ==
    IF c = 0 \/ ss[c].pc = "done" THEN ss
    ELSE [ss EXCEPT ![c].signal = IF @ = "live" THEN why ELSE @]

\* a body whose read() goes on delivering data after abort()
ReadResolvesAlways(s) == TRUE

\* await reader.read() of a run s: the body of a fetch whose signal is
\* aborted is errored, so read() delivers data only while the signal is live
ReadResolves(s) == s.signal = "live"

\* a handleSubmit that puts the new controller in the ref first and then
\* aborts what the ref holds: the new request, not the earlier one
SupersedeAfterInstall(ss, ref) ==
    [sends |-> ss, ref |-> Len(ss) + 1, signal |-> "supersede"]

\* lines 176-183: abort the controller in the ref, then put a new one there;
\* signal is the signal of the new controller, which belongs to the send
\* appended as Len(ss) + 1
SupersedeController(ss, ref) ==
    [sends |-> Abort(ss, ref, "supersede"), ref |-> Len(ss) + 1, signal |-> "live"]

\* onChange of the input field (disabled while isLoading)
TypeInput ==
    /\ ~isLoading
    /\ Len(sends) < MaxSends
    /\ \E text \in Inputs : input' = text /\ text # input
    /\ UNCHANGED <<messages, isLoading, error, chats, activeChat, ctrlRef,
                   sends, nextId, now, storeVars>>

\* handleSubmit up to `await fetch(...)`
HandleSubmit ==
    /\ Trim(input) # <<>>
    /\ ~isLoading
    /\ Len(sends) < MaxSends
    /\ LET userMessage == Trim(input)
           newChat == NewChat(nextId, Slice0(userMessage, NameLen), now)
           created == activeChat = <<>>
           chats1 == IF created THEN Append(chats, newChat) ELSE chats
           active1 == IF created THEN <<newChat>> ELSE activeChat
           ctl == SupersedeController(sends, ctrlRef)
           newMessages == Append(messages, Msg("user", userMessage))
           upd == UpdateChat(activeChat, newMessages, chats1, active1, now)
           target == IF created THEN newChat.id ELSE activeChat[1].id
       IN /\ nextId' = IF created THEN nextId + 1 ELSE nextId
          /\ input' = <<>>
          /\ messages' = newMessages
          /\ chats' = upd.chats
          /\ activeChat' = upd.active
          /\ isLoading' = TRUE
          /\ error' = <<>>
          /\ ctrlRef' = ctl.ref
          /\ sends' = Append(ctl.sends,
                             StartedSend(activeChat, target, newMessages, ctl.signal))
    /\ UNCHANGED <<now, storeVars>>

\* handleCancel (its button is rendered only while isLoading)
HandleCancel ==
    /\ isLoading
    /\ ctrlRef # 0
    /\ sends' = Abort(sends, ctrlRef, "cancel")
    /\ isLoading' = FALSE
    /\ UNCHANGED <<messages, input, error, chats, activeChat, ctrlRef, nextId, now, storeVars>>

\* the callback of the 30 s timer of send i
TimeoutFire(i) ==
    /\ i \in DOMAIN sends
    /\ sends[i].timer = "armed"
    /\ IF ctrlRef # 0
       THEN /\ sends' = [Abort(sends, ctrlRef, "timeout") EXCEPT ![i].timer = "off"]
            /\ error' = TimedOutText
            /\ isLoading' = FALSE
       ELSE /\ sends' = [sends EXCEPT ![i].timer = "off"]
            /\ UNCHANGED <<error, isLoading>>
    /\ UNCHANGED <<messages, input, chats, activeChat, ctrlRef, nextId, now, storeVars>>

\* lines 280-286: the description the catch block derives from the exception
CatchMessage(name, message) ==
    IF name = "AbortError" THEN CancelledText
    ELSE IF Includes(message, "Failed to fetch") THEN ConnectText
    ELSE IF message = <<>> THEN FallbackText
    ELSE message

\* the catch block followed by the finally block, for the exception (name,
\* message) thrown inside the try of send i
CatchFinally(i, name, message) ==
    LET s == sends[i]
        errorMessage == CatchMessage(name, message)
        errorMessages == Append(s.newMessages, Msg("error", errorMessage))
        upd == UpdateChat(s.cap, errorMessages, chats, activeChat, now)
    IN /\ error' = errorMessage
       /\ messages' = errorMessages
       /\ chats' = upd.chats
       /\ activeChat' = upd.active
       /\ isLoading' = FALSE
       /\ sends' = [sends EXCEPT ![i] = FinishedSend(s)]
       /\ UNCHANGED <<input, ctrlRef, nextId, now, storeVars>>

\* the finally block alone: the try ended without an exception
Finally(i) ==
    /\ isLoading' = FALSE
    /\ sends' = [sends EXCEPT ![i] = FinishedSend(sends[i])]
    /\ UNCHANGED <<messages, input, error, chats, activeChat, ctrlRef, nextId, now, storeVars>>

\* an awaited fetch, response.text() or reader.read() rejects because the
\* signal of the request is aborted
AbortUnwind(i) ==
    /\ i \in DOMAIN sends
    /\ sends[i].pc \in Pending
    /\ sends[i].signal # "live"
    /\ CatchFinally(i, "AbortError", Txt("The user aborted a request."))

\* fetch rejects: the transport could not reach the server
FetchFail(i) ==
    /\ i \in DOMAIN sends
    /\ sends[i].pc = "fetch"
    /\ sends[i].signal = "live"
    /\ \E m \in TransportErrors : CatchFinally(i, "TypeError", m)

\* fetch resolves with a 2xx response: getReader(), fullResponse = '', first read()
FetchOk(i) ==
    /\ i \in DOMAIN sends
    /\ sends[i].pc = "fetch"
    /\ sends[i].signal = "live"
    /\ \E body \in Streams : sends' = [sends EXCEPT ![i].pc = "read", ![i].rest = body]
    /\ UNCHANGED <<messages, input, isLoading, error, chats, activeChat, ctrlRef,
                   nextId, now, storeVars>>

\* fetch resolves with a non-2xx response: await response.text()
FetchNotOk(i) ==
    /\ i \in DOMAIN sends
    /\ sends[i].pc = "fetch"
    /\ sends[i].signal = "live"
    /\ \E r \in Responses : sends' = [sends EXCEPT ![i].pc = "text", ![i].resp = r]
    /\ UNCHANGED <<messages, input, isLoading, error, chats, activeChat, ctrlRef,
                   nextId, now, storeVars>>

\* lines 223-240: the message of the Error thrown for a non-2xx response
HttpErrorMessage(r) ==
    IF r.json
    THEN IF r.err # <<>> /\ Includes(r.err, "model")
         THEN <<"Model error: ">> \o r.err
                \o <<". Try running 'ollama list' to see available models.">>
         ELSE IF r.err # <<>> THEN r.err ELSE r.text
    ELSE IF r.status = 404 THEN Api404Text
    ELSE IF r.status = 500 THEN Api500Text
    ELSE r.text

\* response.text() resolves: build the message, throw, catch
TextDone(i) ==
    /\ i \in DOMAIN sends
    /\ sends[i].pc = "text"
    /\ sends[i].signal = "live"
    /\ CatchFinally(i, "Error", HttpErrorMessage(sends[i].resp))

\* a clearTimeout that leaves the timer as it is
ClearTimeoutKeeps(timer) == timer

\* clearTimeout(timeoutId) (lines 247, 293)
ClearTimeout(timer) == "off"

\* reader.read() resolves with a chunk: one pass of the while loop
ReadChunk(i) ==
    /\ i \in DOMAIN sends
    /\ sends[i].pc = "read"
    /\ ReadResolves(sends[i])
    /\ sends[i].rest # <<>>
    /\ LET s == sends[i]
             chunk == Head(s.rest)
             r == ProcessChunk(chunk, s.fullResponse)
             cleared == [sends EXCEPT ![i].timer = ClearTimeout(@),
                                      ![i].rest = Tail(@),
                                      ![i].chunks = Append(@, chunk),
                                      ![i].fullResponse = r.full,
                                      ![i].writes = @ \o r.writes]
             updatedMessages == Append(s.newMessages, Msg("assistant", Last(r.writes)))
             upd == IF r.writes = <<>> THEN [chats |-> chats, active |-> activeChat]
                    ELSE UpdateChat(s.cap, updatedMessages, chats, activeChat, now)
             errorMessage == CatchMessage("Error", r.thrown)
             errorMessages == Append(s.newMessages, Msg("error", errorMessage))
             updE == UpdateChat(s.cap, errorMessages, upd.chats, upd.active, now)
         IN IF r.thrown = <<>>
            THEN /\ sends' = cleared
                 /\ messages' = IF r.writes = <<>> THEN messages ELSE updatedMessages
                 /\ chats' = upd.chats
                 /\ activeChat' = upd.active
                 /\ UNCHANGED <<isLoading, error>>
            ELSE \* an exception left the loop: catch, finally
                 /\ sends' = [cleared EXCEPT ![i] = FinishedSend(cleared[i])]
                 /\ messages' = errorMessages
                 /\ chats' = updE.chats
                 /\ activeChat' = updE.active
                 /\ error' = errorMessage
                 /\ isLoading' = FALSE
    /\ UNCHANGED <<input, ctrlRef, nextId, now, storeVars>>

\* reader.read() resolves with done (the body ended, or the server closed
\* the connection early): break, finally
ReadDone(i) ==
    /\ i \in DOMAIN sends
    /\ sends[i].pc = "read"
    /\ sends[i].signal = "live"
    /\ Finally(i)

Next ==
    \/ TypeInput
    \/ HandleSubmit
    \/ HandleCancel
    \/ \E i \in 1..MaxSends : TimeoutFire(i)
    \/ \E i \in 1..MaxSends : AbortUnwind(i)
    \/ \E i \in 1..MaxSends : FetchFail(i)
    \/ \E i \in 1..MaxSends : FetchOk(i)
    \/ \E i \in 1..MaxSends : FetchNotOk(i)
    \/ \E i \in 1..MaxSends : TextDone(i)
    \/ \E i \in 1..MaxSends : ReadChunk(i)
    \/ \E i \in 1..MaxSends : ReadDone(i)

Spec == Init /\ [][Next]_vars


\* The event loop runs the callback of an armed timer, and resumes a handler
\* whose awaited promise was rejected by abort().  Nothing obliges the
\* transport to answer, to deliver a chunk or to end the body, nor the user
\* to cancel.
LiveNext == Next /\ Len(sends') <= LiveSends

LiveSpec ==
    /\ Init
    /\ [][LiveNext]_vars
    /\ \A i \in 1..MaxSends : WF_vars(TimeoutFire(i)) /\ WF_vars(AbortUnwind(i))

(* ------------------------------- claims ------------------------------- *)

ErrCount(msgs) == Cardinality({k \in DOMAIN msgs : msgs[k].role = "error"})

InMsgs(msgs, m) == \E k \in DOMAIN msgs : msgs[k] = m

\* the messages of the stored conversation id, as a set of at most one list
StoredMessages(cs, id) == {cs[k].messages : k \in {n \in DOMAIN cs : cs[n].id = id}}

\* send i has just run one pass of its read loop and is still reading
ChunkStep(i) ==
    /\ sends[i].pc = "read"
    /\ sends'[i].pc = "read"
    /\ Len(sends'[i].chunks) = Len(sends[i].chunks) + 1

\* send i has just written a delta
DeltaStep(i) == ChunkStep(i) /\ Len(sends'[i].writes) > Len(sends[i].writes)

\* handleSubmit has just issued a request
SubmitStep == Len(sends') = Len(sends) + 1

\* C1: during one send, each content written as the assistant message of the
\* turn extends the content written at the previous delta, and it is what the
\* message buffer ends with after the delta.
C1_Growth ==
    [][\A i \in DOMAIN sends :
         DeltaStep(i) =>
           LET w == sends'[i].writes IN
           /\ messages' # <<>>
           /\ Last(messages') = Msg("assistant", Last(w))
           /\ \A k \in 2..Len(w) : IsPrefix(w[k - 1], w[k])]_vars

C1_Witness ==
    \E i \in DOMAIN sends :
      /\ Len(sends[i].writes) >= 2
      /\ Len(sends[i].writes[2]) > Len(sends[i].writes[1])
      /\ messages # <<>>
      /\ Last(messages) = Msg("assistant", sends[i].writes[2])

\* C2: when send is issued, the target conversation in the store ends with the
\* user message holding the trimmed text before the request; with no active
\* conversation the target is a new conversation, named with the first 30
\* characters of the trimmed text and made active.
C2_UserMessageStored ==
    [][SubmitStep =>
         LET s == Last(sends')
             text == Trim(input)
         IN /\ \E k \in DOMAIN chats' :
                 /\ chats'[k].id = s.target
                 /\ chats'[k].messages # <<>>
                 /\ Last(chats'[k].messages) = Msg("user", text)
                 /\ activeChat = <<>> => chats'[k].name = Slice0(text, NameLen)
            /\ activeChat = <<>> =>
                 /\ StoredMessages(chats, s.target) = {}
                 /\ activeChat' # <<>>
                 /\ activeChat'[1].id = s.target]_vars

\* C3: after each non-empty delta of a send, the last message of the target
\* conversation in the store is the assistant message holding all the deltas
\* received so far, also when that send created the conversation.
C3_DeltaStored ==
    [][\A i \in DOMAIN sends :
         DeltaStep(i) =>
           \E msgs \in StoredMessages(chats', sends[i].target) :
             /\ msgs # <<>>
             /\ Last(msgs) = Msg("assistant", sends'[i].fullResponse)]_vars

\* C4: when a send that has applied a delta is aborted, the assistant message
\* holding its partial output stays where it was: in the message buffer and
\* in the stored conversation.
C4_PartialKept ==
    [][\A i \in DOMAIN sends :
         ( /\ sends[i].pc = "read"
           /\ sends[i].writes # <<>>
           /\ sends[i].signal # "live"
           /\ sends'[i].pc = "done" ) =>
           LET partial == Msg("assistant", Last(sends[i].writes)) IN
           /\ InMsgs(messages, partial) => InMsgs(messages', partial)
           /\ \A msgs \in StoredMessages(chats, sends[i].target) :
                InMsgs(msgs, partial) =>
                  \E after \in StoredMessages(chats', sends[i].target) :
                    InMsgs(after, partial)]_vars

\* C5: the accumulated assistant message does not depend on how the body is
\* cut into chunks: it is what the same bytes give when read as one chunk.
C5_ChunkingIndependent ==
    \A i \in DOMAIN sends :
      sends[i].pc = "read" =>
        sends[i].fullResponse = ProcessChunk(Concat(sends[i].chunks), <<>>).full

RECURSIVE JoinLines(_)
JoinLines(lines) ==
    IF lines = <<>> THEN <<>>
    ELSE IF Len(lines) = 1 THEN lines[1]
    ELSE lines[1] \o <<NL>> \o JoinLines(Tail(lines))

Unparsable(line) == Trim(line) # <<>> /\ ~ParseLine(line).ok

\* the chunk without its lines that are no JSON
WithoutInvalid(chunk) ==
    JoinLines(SelectSeq(SplitLines(chunk), LAMBDA line : ~Unparsable(line)))

\* C6: a line that is no JSON changes nothing: a chunk holding such lines
\* leaves the accumulated message as the chunk without them leaves it, the
\* send goes on reading, and no error message is appended; the stream of a
\* request that was not aborted ends only by end-of-stream.
C6_MalformedSkipped ==
    [][\A i \in DOMAIN sends :
         /\ ChunkStep(i) =>
              /\ sends'[i].fullResponse =
                   ProcessChunk(WithoutInvalid(Last(sends'[i].chunks)),
                                sends[i].fullResponse).full
              /\ ErrCount(messages') <= ErrCount(messages)
         /\ ( /\ sends[i].pc = "read"
              /\ sends[i].signal = "live"
              /\ sends'[i].pc = "done" ) =>
              /\ messages' = messages
              /\ error' = error]_vars

C6_Witness ==
    \E i \in DOMAIN sends :
      /\ sends[i].pc = "read"
      /\ sends[i].chunks # <<>>
      /\ \E line \in {SplitLines(Last(sends[i].chunks))[k] :
                        k \in DOMAIN SplitLines(Last(sends[i].chunks))} :
           Unparsable(line)
      /\ sends[i].fullResponse = <<"a", "b">>
      /\ messages # <<>>
      /\ Last(messages) = Msg("assistant", <<"a", "b">>)

HasErrorRecord(chunk) ==
    \E k \in DOMAIN SplitLines(chunk) :
      LET json == ParseLine(SplitLines(chunk)[k]) IN json.ok /\ json.error # <<>>

\* C7: whatever the kind of failure (transport unreachable, error record in
\* the stream, abort, non-2xx status), the send leaves exactly one error
\* message after its user message.
C7_OneErrorPerFailure ==
    [][\A i \in DOMAIN sends :
         ( \/ /\ sends[i].pc \in Pending
              /\ sends'[i].pc = "done"
              /\ ~(sends[i].pc = "read" /\ sends[i].signal = "live")
           \/ /\ ChunkStep(i)
              /\ HasErrorRecord(Last(sends'[i].chunks)) ) =>
           /\ messages' # <<>>
           /\ Last(messages').role = "error"
           /\ ErrCount(messages') = ErrCount(sends[i].newMessages) + 1]_vars

\* C8: a send aborted by its timeout before any byte arrived appends exactly
\* one error message, whose description is not the one of a user cancel, and
\* isLoading is false afterwards.
C8_TimeoutDescription ==
    [][\A i \in DOMAIN sends :
         ( /\ sends[i].pc \in Pending
           /\ sends[i].chunks = <<>>
           /\ sends[i].signal = "timeout"
           /\ sends'[i].pc = "done" ) =>
           /\ messages' # <<>>
           /\ Last(messages').role = "error"
           /\ ErrCount(messages') = ErrCount(sends[i].newMessages) + 1
           /\ Last(messages').content # CancelledText
           /\ ~isLoading']_vars

AssistantContents(msgs) ==
    {msgs[k].content : k \in {n \in DOMAIN msgs : msgs[n].role = "assistant"}}

\* the contents fullResponse takes while one send reads the chunks of body
RECURSIVE ContentsOf(_, _)
ContentsOf(body, fullResponse) ==
    IF body = <<>> THEN {}
    ELSE LET r == ProcessChunk(Head(body), fullResponse) IN
         {r.writes[k] : k \in DOMAIN r.writes} \cup ContentsOf(Tail(body), r.full)

\* what an assistant message may hold when it holds deltas of one send only
SingleSendContents == UNION {ContentsOf(body, <<>>) : body \in Streams}

\* C11: no assistant message holds text deltas of two different sends: the
\* content of every assistant message, in the message buffer and in the store,
\* is what one send alone accumulates from its own body (or is a message that
\* was stored before any send), and each write of a send is made of the
\* chunks of that send only.
C11_NoMixedDeltas ==
    /\ \A c \in AssistantContents(messages) :
         c \in SingleSendContents \cup AssistantContents(StoredChat.messages)
    /\ \A k \in DOMAIN chats : \A c \in AssistantContents(chats[k].messages) :
         c \in SingleSendContents \cup AssistantContents(StoredChat.messages)
    /\ \A i \in DOMAIN sends : \A k \in DOMAIN sends[i].writes :
         sends[i].writes[k] \in ContentsOf(sends[i].chunks, <<>>)

C11_Witness ==
    \E i, j \in DOMAIN sends :
      /\ i < j
      /\ sends[i].pc = "read" /\ sends[i].writes # <<>>
      /\ sends[j].pc = "read" /\ sends[j].writes # <<>>
      /\ Last(messages) = Msg("assistant", Last(sends[j].writes))

\* the requests that are in flight and whose abort was not requested
LiveRequests == {i \in DOMAIN sends : sends[i].pc \in Pending /\ sends[i].signal = "live"}

\* C12: at every moment at most one request is in flight un-aborted, and it
\* is the one whose controller is in the ref: every request started earlier
\* has finished or had abort requested.
C12_OneLiveRequest ==
    /\ Cardinality(LiveRequests) <= 1
    /\ \A i \in LiveRequests : ctrlRef = i /\ i = Len(sends)

C12_Witness ==
    \E i, j \in DOMAIN sends :
      /\ i < j
      /\ sends[i].pc \in Pending /\ sends[i].signal = "cancel"
      /\ LiveRequests = {j}

\* C13: once abort was requested for a send, no text delta of that send is
\* applied: the send reads no further chunk and writes nothing, and a step
\* that changes the message buffer or the store is the step of another send
\* or the catch block of this one.
C13_NoDeltaAfterAbort ==
    [][\A i \in DOMAIN sends :
         (sends[i].pc \in Pending /\ sends[i].signal # "live") =>
           /\ ~ChunkStep(i)
           /\ sends'[i].pc # "done" =>
                /\ sends'[i].writes = sends[i].writes
                /\ sends'[i].fullResponse = sends[i].fullResponse
                /\ (~SubmitStep /\ \A j \in DOMAIN sends : j # i => sends'[j] = sends[j])
                     => (messages' = messages /\ chats' = chats)]_vars

C13_Witness ==
    \E i \in DOMAIN sends :
      /\ sends[i].pc = "read"
      /\ sends[i].signal # "live"
      /\ sends[i].writes # <<>>
      /\ sends[i].rest # <<>>

(* ------------------------- persistence layer -------------------------- *)
(* saveChats and loadChats of utils/storage.js over localStorage.  A text  *)
(* is a sequence of tokens; a token stands for one character, BigText for  *)
(* a text of BigLen characters.  Each setItem has one of three outcomes:   *)
(* it stores the item, it throws QuotaExceededError, or it throws another  *)
(* error.                                                                  *)

MAX_CHATS == 100
MAX_MESSAGES_PER_CHAT == 100
BACKUP_INTERVAL == 1000 * 60 * 5
MAX_STORAGE_SIZE == 1024 * 1024 * 10

\* conversations beyond MAX_CHATS, and messages beyond
\* MAX_MESSAGES_PER_CHAT, in the lists handed to saveChats
ExtraChats == 1
ExtraMessages == 1

\* how many times the clock is advanced
MaxTicks == 1

\* Array.prototype.slice(-n): the last n elements; slice(-0) is slice(0),
\* the whole array
SliceLast(s, n) ==
    IF n = 0 \/ n >= Len(s) THEN s ELSE SubSeq(s, Len(s) - n + 1, Len(s))

\* a slice(-n) that gives the empty array for n = 0
SliceLastStrict(s, n) ==
    IF n >= Len(s) THEN s ELSE SubSeq(s, Len(s) - n + 1, Len(s))

\* a trim that keeps the first messages of a conversation, not the last
TrimChatsHead(cs) ==
    LET kept == SliceLast(cs, MAX_CHATS) IN
    [k \in DOMAIN kept |->
       [kept[k] EXCEPT !.messages =
          SubSeq(@, 1, IF Len(@) > MAX_MESSAGES_PER_CHAT
                       THEN MAX_MESSAGES_PER_CHAT ELSE Len(@))]]

\* lines 35-38: trimmedChats
TrimChats(cs) ==
    LET kept == SliceLast(cs, MAX_CHATS) IN
    [k \in DOMAIN kept |->
       [kept[k] EXCEPT !.messages = SliceLast(@, MAX_MESSAGES_PER_CHAT)]]

\* lines 51-56: reducedChats
ReduceChats(trimmedChats) ==
    LET kept == SliceLast(trimmedChats, Len(trimmedChats) \div 2) IN
    [k \in DOMAIN kept |-> [kept[k] EXCEPT !.messages = SliceLast(@, 50)]]

BigText == "BIG"
BigLen == MAX_STORAGE_SIZE \div 2 + 1

RECURSIVE TextLength(_)
TextLength(text) ==
    IF text = <<>> THEN 0
    ELSE (IF Head(text) = BigText THEN BigLen ELSE 1) + TextLength(Tail(text))

RoleLength(r) == IF r = "user" THEN 4 ELSE IF r = "assistant" THEN 9 ELSE 5

\* the length of {"role":"..","content":".."}
MessageJsonLength(m) == 24 + RoleLength(m.role) + TextLength(m.content)

\* the sum of the lengths of the messages msgs[lo] to msgs[hi]
RECURSIVE SumMessages(_, _, _)
SumMessages(msgs, lo, hi) ==
    IF lo > hi THEN 0
    ELSE IF lo = hi THEN MessageJsonLength(msgs[lo])
    ELSE LET mid == (lo + hi) \div 2 IN
         SumMessages(msgs, lo, mid) + SumMessages(msgs, mid + 1, hi)

\* the brackets and commas of a JSON array of n items
ArrayOverhead(n) == 2 + (IF n > 1 THEN n - 1 ELSE 0)

\* the length of {"id":"..","name":"..","messages":[..],"createdAt":..,
\* "updatedAt":..}, the id and each time counted as one character
ChatJsonLength(c) ==
    60 + TextLength(c.name) + ArrayOverhead(Len(c.messages))
       + SumMessages(c.messages, 1, Len(c.messages))

\* the sum of the lengths of the conversations cs[lo] to cs[hi]
RECURSIVE SumChats(_, _, _)
SumChats(cs, lo, hi) ==
    IF lo > hi THEN 0
    ELSE IF lo = hi THEN ChatJsonLength(cs[lo])
    ELSE LET mid == (lo + hi) \div 2 IN
         SumChats(cs, lo, mid) + SumChats(cs, mid + 1, hi)

\* JSON.stringify of a list of conversations: the item it gives, with what
\* JSON.parse reads back from it and the length of its text
Stringify(cs) ==
    [kind |-> "json", data |-> cs, length |-> ArrayOverhead(Len(cs)) + SumChats(cs, 1, Len(cs))]

\* an item that is no JSON text
Corrupt == [kind |-> "corrupt", data |-> <<>>, length |-> 1]

\* the outcomes of one localStorage.setItem
WriteOutcomes == {"ok", "quota", "error"}

\* the outcomes of the setItem calls of one saveChats: of line 45, of line
\* 57 and of createBackup (a call that is not reached has no outcome)
SaveOutcomes ==
    { <<"ok", "ok", "ok">>, <<"ok", "quota", "backup fails">>,
      <<"ok", "error", "stamp fails">>, <<"quota", "ok", "ok">>,
      <<"quota", "quota", "ok">>, <<"error", "ok", "ok">> }

\* the outcomes of the two setItem calls of createBackup
BackupOutcomes == {"ok", "backup fails", "stamp fails"}

\* a createBackup that stores the degraded list
CreateBackupReduced(cs, t, backup, lastBackup, outcome) ==
    IF lastBackup = <<>> \/ t - lastBackup[1] > BACKUP_INTERVAL
    THEN IF outcome = "backup fails"
         THEN [backup |-> backup, lastBackup |-> lastBackup, wrote |-> FALSE]
         ELSE [backup |-> Stringify(ReduceChats(cs)), lastBackup |-> <<t>>,
               wrote |-> TRUE]
    ELSE [backup |-> backup, lastBackup |-> lastBackup, wrote |-> FALSE]

\* createBackup (lines 100-113): what the backup items hold afterwards
CreateBackup(cs, t, backup, lastBackup, outcome) ==
    IF lastBackup = <<>> \/ t - lastBackup[1] > BACKUP_INTERVAL
    THEN IF outcome = "ok"
         THEN [backup |-> Stringify(cs), lastBackup |-> <<t>>, wrote |-> TRUE]
         ELSE IF outcome = "stamp fails"
         THEN [backup |-> Stringify(cs), lastBackup |-> lastBackup, wrote |-> TRUE]
         ELSE [backup |-> backup, lastBackup |-> lastBackup, wrote |-> FALSE]
    ELSE [backup |-> backup, lastBackup |-> lastBackup, wrote |-> FALSE]

\* saveChats(chats) (lines 33-62).  first and second are the outcomes of the
\* setItem of line 45 and of line 57, third the outcome of createBackup
SaveChats(first, second, third) ==
    LET trimmedChats == TrimChats(chats)
        chatData == Stringify(trimmedChats)
        limit == chatData.length > MAX_STORAGE_SIZE
    IN /\ op' = "save"
       /\ loadRet' = NoRet
       /\ IF ~limit /\ first = "ok"
          THEN \* lines 45-46, 61
               LET b == CreateBackup(trimmedChats, now, lsBackup, lsLastBackup, third)
               IN /\ lsChats' = chatData
                  /\ lsBackup' = b.backup
                  /\ lsLastBackup' = b.lastBackup
                  /\ saveRet' = [kind |-> "returned", value |-> trimmedChats,
                                 path |-> "normal", wrote |-> TRUE,
                                 backup |-> b.wrote]
          ELSE IF limit \/ first = "quota"
          THEN \* lines 50-58
               LET reducedChats == ReduceChats(trimmedChats) IN
               IF second = "ok"
               THEN /\ lsChats' = Stringify(reducedChats)
                    /\ saveRet' = [kind |-> "returned", value |-> reducedChats,
                                   path |-> "degraded", wrote |-> TRUE,
                                   backup |-> FALSE]
                    /\ UNCHANGED <<lsBackup, lsLastBackup>>
               ELSE \* the setItem of line 57 throws inside the catch block
                    /\ saveRet' = [kind |-> "raised", value |-> <<>>,
                                   path |-> "degraded", wrote |-> FALSE,
                                   backup |-> FALSE]
                    /\ UNCHANGED <<lsChats, lsBackup, lsLastBackup>>
          ELSE \* another error: logged at line 48, then line 61
               /\ saveRet' = [kind |-> "returned", value |-> trimmedChats,
                              path |-> "unsaved", wrote |-> FALSE,
                              backup |-> FALSE]
               /\ UNCHANGED <<lsChats, lsBackup, lsLastBackup>>
       /\ UNCHANGED <<messages, input, isLoading, error, chats, activeChat,
                      ctrlRef, sends, nextId, now, uiVars>>

\* where the sort of line 69 puts cs[k]: after every element with a greater
\* updatedAt, and after the earlier elements with the same updatedAt
\* (Array.prototype.sort is stable)
PlaceByUpdatedAt(cs, k) ==
    1 + Cardinality({j \in DOMAIN cs :
                       \/ cs[j].updatedAt > cs[k].updatedAt
                       \/ cs[j].updatedAt = cs[k].updatedAt /\ j < k})

\* parsedChats.sort((a, b) => b.updatedAt - a.updatedAt)
SortByUpdatedAt(cs) ==
    LET place == <<>> \o [k \in DOMAIN cs |-> PlaceByUpdatedAt(cs, k)] IN
    [p \in DOMAIN cs |-> cs[CHOOSE k \in DOMAIN cs : place[k] = p]]

\* a loadBackup whose JSON.parse is outside the try
LoadBackupUnguarded(item) ==
    IF item.kind = "json" THEN [raised |-> FALSE, null |-> FALSE, value |-> item.data]
    ELSE IF item.kind = "absent" THEN [raised |-> FALSE, null |-> TRUE, value |-> <<>>]
    ELSE [raised |-> TRUE, null |-> TRUE, value |-> <<>>]

\* loadBackup (lines 115-123)
LoadBackup(item) ==
    IF item.kind = "json" THEN [raised |-> FALSE, null |-> FALSE, value |-> item.data]
    ELSE [raised |-> FALSE, null |-> TRUE, value |-> <<>>]

\* loadChats (lines 64-75)
LoadChats ==
    /\ op' = "load"
    /\ saveRet' = NoRet
    /\ loadRet' =
         IF lsChats.kind = "absent"
         THEN [kind |-> "returned", value |-> <<>>, path |-> "primary",
               wrote |-> FALSE, backup |-> FALSE]
         ELSE IF lsChats.kind = "json"
         THEN [kind |-> "returned", value |-> SortByUpdatedAt(lsChats.data),
               path |-> "primary", wrote |-> FALSE, backup |-> FALSE]
         ELSE LET b == LoadBackup(lsBackup) IN
              IF b.raised
              THEN [kind |-> "raised", value |-> <<>>, path |-> "backup",
                    wrote |-> FALSE, backup |-> FALSE]
              ELSE [kind |-> "returned", value |-> IF b.null THEN <<>> ELSE b.value,
                    path |-> "backup", wrote |-> FALSE, backup |-> ~b.null]
    /\ UNCHANGED <<messages, input, isLoading, error, chats, activeChat,
                   ctrlRef, sends, nextId, now, lsChats, lsBackup, lsLastBackup,
                   uiVars>>

\* time passes
Tick ==
    /\ now \div BACKUP_INTERVAL < MaxTicks
    /\ \E d \in {BACKUP_INTERVAL, BACKUP_INTERVAL + 1} : now' = now + d
    /\ op' = "tick"
    /\ saveRet' = NoRet
    /\ loadRet' = NoRet
    /\ UNCHANGED <<messages, input, isLoading, error, chats, activeChat,
                   ctrlRef, sends, nextId, lsChats, lsBackup, lsLastBackup,
                   uiVars>>

(* the lists handed to saveChats, and what localStorage holds at first *)

\* m messages, told apart by their content
SomeMessages(m, big) ==
    [k \in 1..m |-> Msg(IF k % 2 = 1 THEN "user" ELSE "assistant",
                        IF big THEN <<BigText, ToString(k)>> ELSE <<ToString(k)>>)]

SomeChat(id, m, t, big) ==
    [id |-> id, name |-> <<"o">>, messages |-> SomeMessages(m, big),
     createdAt |-> 0, updatedAt |-> t]

\* n conversations, the most recently updated last
OldestFirst(n, m, big) == [k \in 1..n |-> SomeChat(k, m, k, big)]

\* n conversations, the most recently updated first, as loadChats gives them
NewestFirst(n, m, big) == [k \in 1..n |-> SomeChat(k, m, n + 1 - k, big)]

\* n loaded conversations and one more that a send has just created
\* (setChats(prev => [...prev, newChat]), part_001 line 172)
LoadedAndNew(n) == Append(NewestFirst(n, 1, FALSE), SomeChat(n + 1, 1, n + 1, FALSE))

\* more conversations than are kept, the last of them with more messages
\* than are kept
TooMany ==
    [k \in 1..(MAX_CHATS + ExtraChats) |->
       SomeChat(k, IF k = MAX_CHATS + ExtraChats
                   THEN MAX_MESSAGES_PER_CHAT + ExtraMessages ELSE 1, k, FALSE)]

SaveInputs ==
    {OldestFirst(n, 1, FALSE) : n \in {0, 1, 3}}
      \cup {TooMany}
      \cup {NewestFirst(3, 1, FALSE), LoadedAndNew(MAX_CHATS + ExtraChats - 1)}
      \cup {OldestFirst(2, m, FALSE) :
              m \in {51, MAX_MESSAGES_PER_CHAT + ExtraMessages}}
      \cup {OldestFirst(1, 2, TRUE), OldestFirst(3, 1, TRUE), NewestFirst(4, 1, TRUE)}

\* what the two snapshots may hold when the page is opened
StoredItems ==
    { [chats |-> Absent, backup |-> Absent, lastBackup |-> <<>>],
      [chats |-> Stringify(OldestFirst(2, 1, FALSE)),
       backup |-> Stringify(OldestFirst(1, 1, FALSE)), lastBackup |-> <<0>>],
      [chats |-> Corrupt, backup |-> Stringify(OldestFirst(2, 2, FALSE)),
       lastBackup |-> <<0>>],
      [chats |-> Corrupt, backup |-> Corrupt, lastBackup |-> <<0>>],
      [chats |-> Corrupt, backup |-> Absent, lastBackup |-> <<>>] }

StoreInit ==
    /\ chats \in SaveInputs
    /\ \E st \in StoredItems :
         /\ lsChats = st.chats
         /\ lsBackup = st.backup
         /\ lsLastBackup = st.lastBackup
    /\ op = "none"
    /\ saveRet = NoRet
    /\ loadRet = NoRet
    /\ InitSettings
    /\ messages = <<>>
    /\ input = <<>>
    /\ isLoading = FALSE
    /\ error = <<>>
    /\ activeChat = <<>>
    /\ ctrlRef = 0
    /\ sends = <<>>
    /\ nextId = 2
    /\ now = 0

StoreNext ==
    \/ \E o \in SaveOutcomes : SaveChats(o[1], o[2], o[3])
    \/ LoadChats
    \/ Tick

StoreSpec == StoreInit /\ [][StoreNext]_vars

(* --------------------- claims on the persistence layer ---------------- *)

\* the conversation of list cs that has the id of c, as a set
Original(cs, c) == {cs[k] : k \in {n \in DOMAIN cs : cs[n].id = c.id}}

\* list holds at most MAX_CHATS conversations of the list cs, each with the
\* last n messages it has in cs (all of them when it has fewer)
CappedTo(list, cs, n) ==
    /\ Len(list) <= MAX_CHATS
    /\ \A k \in DOMAIN list :
         /\ Len(list[k].messages) <= MAX_MESSAGES_PER_CHAT
         /\ \E o \in Original(cs, list[k]) :
              list[k].messages = SliceLast(o.messages, n)

Returned == op = "save" /\ saveRet.kind = "returned"

\* C14 as stated: after save, the returned list and the snapshot it wrote
\* hold at most 100 conversations, each with the last 100 messages of the
\* conversation.
C14_Last100Kept ==
    Returned =>
      /\ CappedTo(saveRet.value, chats, MAX_MESSAGES_PER_CHAT)
      /\ saveRet.wrote => CappedTo(lsChats.data, chats, MAX_MESSAGES_PER_CHAT)

\* C14 as amended: after save, the returned list and the snapshot it wrote
\* hold at most 100 conversations, each with at most 100 messages: the last
\* 100 of the conversation when the save took the normal path, the last 50
\* when it took the degraded path.
C14_CappedAfterSave ==
    Returned =>
      LET n == IF saveRet.path = "degraded" THEN 50 ELSE MAX_MESSAGES_PER_CHAT IN
      /\ CappedTo(saveRet.value, chats, n)
      /\ saveRet.wrote => CappedTo(lsChats.data, chats, n)

C14_Witness ==
    /\ Returned
    /\ saveRet.path = "normal"
    /\ Len(chats) > MAX_CHATS
    /\ Len(lsChats.data) = MAX_CHATS
    /\ \E k \in DOMAIN lsChats.data : \E o \in Original(chats, lsChats.data[k]) :
         /\ Len(o.messages) > MAX_MESSAGES_PER_CHAT
         /\ Len(lsChats.data[k].messages) = MAX_MESSAGES_PER_CHAT
         /\ lsChats.data[k].messages[1] = o.messages[Len(o.messages) + 1 - MAX_MESSAGES_PER_CHAT]

\* the conversations of list are, among those of cs, the ones updated last
MostRecentOf(list, cs) ==
    \A k \in DOMAIN list : \A d \in DOMAIN cs :
      (\A j \in DOMAIN list : list[j].id # cs[d].id) =>
        list[k].updatedAt >= cs[d].updatedAt

\* C15: when save is handed more than 100 conversations, the 100 it keeps
\* are the ones with the greatest updatedAt, whatever the order of the list.
C15_KeepsMostRecent ==
    (Returned /\ saveRet.path = "normal" /\ Len(chats) > MAX_CHATS) =>
      /\ Len(saveRet.value) = MAX_CHATS
      /\ MostRecentOf(saveRet.value, chats)

\* C16: on the overflow path, save persists and returns the most recent
\* ceil(N/2) of the N trimmed conversations, each with its last 50 messages.
C16_DegradedKeepsHalf ==
    (Returned /\ saveRet.path = "degraded" /\ chats # <<>>) =>
      LET trimmedChats == TrimChats(chats)
          N == Len(trimmedChats)
          half == (N + 1) \div 2
      IN /\ Len(saveRet.value) = half
         /\ MostRecentOf(saveRet.value, trimmedChats)
         /\ \A k \in DOMAIN saveRet.value :
              \E o \in Original(trimmedChats, saveRet.value[k]) :
                saveRet.value[k].messages = SliceLast(o.messages, 50)
         /\ lsChats.data = saveRet.value

\* C17: when the serialized store exceeds the ceiling, the snapshot that
\* save persists is not longer than the ceiling.
C17_PersistedUnderCeiling ==
    ( /\ op = "save"
      /\ saveRet.wrote
      /\ Stringify(TrimChats(chats)).length > MAX_STORAGE_SIZE ) =>
      lsChats.length <= MAX_STORAGE_SIZE

\* C18: save never raises to its caller, whatever the outcome of the
\* degraded write.
C18_SaveNeverRaises == op = "save" => saveRet.kind # "raised"

\* C19: whenever save returns, the list it returns is the content of the
\* primary snapshot, for every storage outcome.
C19_ReturnedIsPersisted ==
    Returned => (lsChats.kind = "json" /\ lsChats.data = saveRet.value)

\* C20: load never raises; when the primary snapshot is unparsable it
\* returns the conversations of the backup if the backup is valid, and the
\* empty list if the backup is unparsable too.
C20_LoadRecovers ==
    op = "load" =>
      /\ loadRet.kind = "returned"
      /\ lsChats.kind = "corrupt" =>
           /\ lsBackup.kind = "json" => loadRet.value = lsBackup.data
           /\ lsBackup.kind = "corrupt" => loadRet.value = <<>>

C20_Witness ==
    /\ op = "load"
    /\ lsChats.kind = "corrupt"
    /\ lsBackup.kind = "json"
    /\ loadRet.kind = "returned"
    /\ Len(loadRet.value) = 2
    /\ loadRet.value = lsBackup.data

\* list is ordered by updatedAt, greatest first
SortedByUpdatedAt(list) ==
    \A k \in 1..(Len(list) - 1) : list[k].updatedAt >= list[k + 1].updatedAt

\* C21: the conversations load returns are sorted by updatedAt descending,
\* whether they come from the primary snapshot or from the backup.
C21_LoadSorted ==
    (op = "load" /\ loadRet.kind = "returned") => SortedByUpdatedAt(loadRet.value)

\* createBackup's gate is open: no timestamp, or more than 5 minutes since it
BackupDue == lsLastBackup = <<>> \/ now - lsLastBackup[1] > BACKUP_INTERVAL

\* C22: a successful primary save rewrites the backup snapshot only when no
\* timestamp is recorded or more than 5 minutes have passed since it, and
\* otherwise leaves backup and timestamp alone; hence two backup writes are
\* more than 5 minutes apart: two saves in a row, no time passing between
\* them, do not both write the backup.
C22_BackupGate ==
    [][(op' = "save" /\ saveRet'.path = "normal") =>
         /\ saveRet'.backup => BackupDue
         /\ ~BackupDue => (lsBackup' = lsBackup /\ lsLastBackup' = lsLastBackup)
         /\ (op = "save" /\ saveRet.backup) => ~saveRet'.backup]_vars

\* C23: whenever the backup snapshot is written, its content is the primary
\* snapshot written by the same save call; a save that fails or takes the
\* degraded path writes neither the backup nor its timestamp.
C23_BackupMirrorsPrimary ==
    [][op' = "save" =>
         /\ saveRet'.backup =>
              (saveRet'.path = "normal" /\ saveRet'.wrote /\ lsBackup' = lsChats')
         /\ saveRet'.path # "normal" =>
              (lsBackup' = lsBackup /\ lsLastBackup' = lsLastBackup)
         /\ ~saveRet'.backup => lsBackup' = lsBackup]_vars

C23_Witness ==
    /\ op = "save"
    /\ saveRet.backup
    /\ lsBackup = lsChats
    /\ lsBackup.data # <<>>
    /\ lsBackup.data # chats

(* ====================================================================== *)
(* The chat list and the imports: handleNewChat, handleChatSelect,        *)
(* handleRenameChat, handleDeleteChat, handleImportChat and the onChange  *)
(* of Import All Chats, running between the steps of the sends.  Here the *)
(* clock advances.  The save of the store that follows a change of chats  *)
(* is saveChats, the step SaveChats of the persistence layer.             *)
(* ====================================================================== *)

\* sends in one run of the chat list
ListSends == 1

\* the last id generateId hands out
MaxIds == 3

\* the last value of the clock
MaxClock == 1

\* operations of the user on the chat list (new, select, rename, delete,
\* import) in one run
MaxListOps == 2

\* one more operation of the user on the chat list
ListOp ==
    /\ listOps < MaxListOps
    /\ listOps' = listOps + 1
    /\ UNCHANGED <<lsBackup, lsLastBackup, op, saveRet, loadRet>>

\* the items and the settings stay as they are
SameItems == UNCHANGED <<lsChats, settingsVars>>

(* JSON text of a string: JSON.stringify escapes the quote, the backslash *)
(* and the newline; JSON.parse undoes it                                  *)

QUOTE == "\""
BACKSLASH == "\\"

\* a stringify that writes the characters as they are
JsonStringRaw(text) == <<QUOTE>> \o text \o <<QUOTE>>

RECURSIVE Escape(_)
Escape(text) ==
    IF text = <<>> THEN <<>>
    ELSE (IF Head(text) = QUOTE THEN <<BACKSLASH, QUOTE>>
          ELSE IF Head(text) = BACKSLASH THEN <<BACKSLASH, BACKSLASH>>
          ELSE IF Head(text) = NL THEN <<BACKSLASH, "n">>
          ELSE <<Head(text)>>) \o Escape(Tail(text))

JsonString(text) == <<QUOTE>> \o Escape(text) \o <<QUOTE>>

RECURSIVE Unescape(_)
Unescape(s) ==
    IF s = <<>> THEN <<>>
    ELSE IF Head(s) = BACKSLASH /\ Len(s) >= 2
    THEN (IF s[2] = "n" THEN <<NL>> ELSE <<s[2]>>) \o Unescape(SubSeq(s, 3, Len(s)))
    ELSE <<Head(s)>> \o Unescape(Tail(s))

\* JSON.parse of a string literal; a field that is missing has no text
ParseJsonString(s) == IF Len(s) < 2 THEN <<>> ELSE Unescape(SubSeq(s, 2, Len(s) - 1))

\* exportChat: the document JSON.stringify(chat, null, 2) writes.  kind is
\* "json" for a text that parses; isArray tells whether messages is an array
ExportChat(chat) ==
    [kind |-> "json", id |-> chat.id, name |-> JsonString(chat.name),
     isArray |-> TRUE,
     messages |-> [k \in DOMAIN chat.messages |->
                     [role |-> chat.messages[k].role,
                      content |-> JsonString(chat.messages[k].content)]],
     createdAt |-> chat.createdAt, updatedAt |-> chat.updatedAt]

\* JSON.parse of a conversation document
ParseChat(doc) ==
    [id |-> doc.id, name |-> ParseJsonString(doc.name),
     messages |-> [k \in DOMAIN doc.messages |->
                     Msg(doc.messages[k].role,
                         ParseJsonString(doc.messages[k].content))],
     createdAt |-> doc.createdAt, updatedAt |-> doc.updatedAt]

ParseChatFile == Txt("Failed to parse chat file")
ParseBackupFile == Txt("Failed to parse backup file")

\* an importChat that resolves with whatever parses
ImportChatUnchecked(doc) ==
    IF doc.kind # "json"
    THEN [ok |-> FALSE, chat |-> <<>>, message |-> ParseChatFile]
    ELSE [ok |-> TRUE, chat |-> <<ParseChat(doc)>>, message |-> <<>>]

\* importChat (lines 187-205): the id 0 stands for an empty or missing id
ImportChat(doc) ==
    IF doc.kind # "json"
    THEN [ok |-> FALSE, chat |-> <<>>, message |-> ParseChatFile]
    ELSE LET chat == ParseChat(doc) IN
         IF chat.id = 0 \/ chat.name = <<>> \/ ~doc.isArray
         THEN [ok |-> FALSE, chat |-> <<>>, message |-> ParseChatFile]
         ELSE [ok |-> TRUE, chat |-> <<chat>>, message |-> <<>>]

\* importAllChats (lines 150-173): whether it resolves, and what the two
\* items hold afterwards
ImportAllChats(doc, items, settingsItem) ==
    IF doc.kind # "json" \/ ~doc.isArray
    THEN [ok |-> FALSE, items |-> items, settingsItem |-> settingsItem,
          message |-> ParseBackupFile]
    ELSE [ok |-> TRUE, items |-> Stringify(doc.chats),
          settingsItem |-> IF doc.settings # <<>> THEN doc.settings ELSE settingsItem,
          message |-> <<>>]

\* v || current, for a field f of the settings object s of a document
OrCurrent(s, f, falsy, current) ==
    IF f \in DOMAIN s /\ s[f] # falsy THEN s[f] ELSE current

(* the files the user may pick *)

\* the name typed into the prompt of the rename button
RenameNames == { <<BACKSLASH, "n", QUOTE>> }

\* conversation documents that are not exports of a stored conversation: an
\* empty id, an empty name, no name, messages that is not an array, no JSON
BadChatDocs ==
    { [ExportChat(StoredChat) EXCEPT !.id = 0],
      [ExportChat(StoredChat) EXCEPT !.name = JsonString(<<>>)],
      [ExportChat(StoredChat) EXCEPT !.name = <<>>],
      [ExportChat(StoredChat) EXCEPT !.isArray = FALSE, !.messages = <<>>],
      [ExportChat(StoredChat) EXCEPT !.kind = "corrupt"] }

\* store bundles: two conversations with one id and no settings; one
\* conversation and a settings object with the temperature only; the same
\* with showSidebar only; a bundle whose chats is not an array
Bundles ==
    { [kind |-> "json", isArray |-> TRUE,
       chats |-> <<StoredChat, [StoredChat EXCEPT !.name = <<"b">>]>>,
       settings |-> <<>>],
      [kind |-> "json", isArray |-> TRUE, chats |-> <<StoredChat>>,
       settings |-> <<[temperature |-> 10]>>],
      [kind |-> "json", isArray |-> TRUE, chats |-> <<StoredChat>>,
       settings |-> <<[showSidebar |-> FALSE]>>],
      [kind |-> "json", isArray |-> FALSE, chats |-> <<>>,
       settings |-> <<[temperature |-> 10]>>] }

(* the handlers *)

\* handleNewChat
HandleNewChat ==
    /\ ListOp /\ SameItems
    /\ nextId <= MaxIds
    /\ LET newChat == NewChat(nextId, Txt("New Chat"), now)
       IN /\ chats' = Append(chats, newChat)
          /\ activeChat' = <<newChat>>
          /\ messages' = <<>>
    /\ nextId' = nextId + 1
    /\ UNCHANGED <<input, isLoading, error, ctrlRef, sends, now>>

\* handleChatSelect(chat), chat being the item k of the list
HandleChatSelect(k) ==
    /\ ListOp /\ SameItems
    /\ k \in DOMAIN chats
    /\ activeChat' = <<chats[k]>>
    /\ messages' = chats[k].messages
    /\ UNCHANGED <<input, isLoading, error, chats, ctrlRef, sends, nextId, now>>

\* a rename that leaves updatedAt alone
RenameChatKeepTime(cs, chatId, newName, t) ==
    [k \in DOMAIN cs |->
       IF cs[k].id = chatId THEN [cs[k] EXCEPT !.name = newName] ELSE cs[k]]

\* the updater of handleRenameChat (lines 340-346)
RenameChat(cs, chatId, newName, t) ==
    [k \in DOMAIN cs |->
       IF cs[k].id = chatId THEN [cs[k] EXCEPT !.name = newName, !.updatedAt = t]
       ELSE cs[k]]

\* the rename button of item k (the prompt gave newName), then handleRenameChat
HandleRenameChat(k, newName) ==
    /\ ListOp /\ SameItems
    /\ k \in DOMAIN chats
    /\ newName # <<>>
    /\ newName # chats[k].name
    /\ chats' = RenameChat(chats, chats[k].id, newName, now)
    /\ UNCHANGED <<messages, input, isLoading, error, activeChat, ctrlRef, sends,
                   nextId, now>>

\* a handleDeleteChat that keeps the selection
HandleDeleteChatKeepActive(k) ==
    /\ ListOp /\ SameItems
    /\ k \in DOMAIN chats
    /\ chats' = SelectSeq(chats, LAMBDA c : c.id # chats[k].id)
    /\ UNCHANGED <<messages, input, isLoading, error, activeChat, ctrlRef, sends,
                   nextId, now>>

\* the delete button of item k (confirmed), then handleDeleteChat
HandleDeleteChat(k) ==
    /\ ListOp /\ SameItems
    /\ k \in DOMAIN chats
    /\ chats' = SelectSeq(chats, LAMBDA c : c.id # chats[k].id)
    /\ IF activeChat # <<>> /\ activeChat[1].id = chats[k].id
       THEN activeChat' = <<>> /\ messages' = <<>>
       ELSE UNCHANGED <<activeChat, messages>>
    /\ UNCHANGED <<input, isLoading, error, ctrlRef, sends, nextId, now>>

\* handleImportChat(file), the file holding doc
HandleImportChat(doc) ==
    LET r == ImportChat(doc) IN
    /\ ListOp /\ SameItems
    /\ IF r.ok
       THEN /\ nextId <= MaxIds
            /\ chats' = Append(chats, [r.chat[1] EXCEPT !.id = nextId])
            /\ nextId' = nextId + 1
            /\ UNCHANGED <<messages, input, isLoading, error, activeChat, ctrlRef,
                           sends, now>>
       ELSE /\ error' = r.message
            /\ UNCHANGED <<messages, input, isLoading, chats, activeChat, ctrlRef,
                           sends, nextId, now>>

\* the onChange of Import All Chats (lines 499-515), the file holding doc,
\* followed by the save-settings effect when a setting changed
HandleImportAll(doc) ==
    LET r == ImportAllChats(doc, lsChats, lsSettings) IN
    /\ ListOp
    /\ IF r.ok
       THEN LET model == IF doc.settings = <<>> THEN selectedModel
                         ELSE OrCurrent(doc.settings[1], "selectedModel", "", selectedModel)
                temp == IF doc.settings = <<>> THEN temperature
                        ELSE OrCurrent(doc.settings[1], "temperature", 0, temperature)
            IN /\ chats' = doc.chats
               /\ selectedModel' = model
               /\ temperature' = temp
               /\ error' = <<>>
               /\ lsChats' = r.items
               /\ lsSettings' = IF model # selectedModel \/ temp # temperature
                                THEN <<SettingsObject(model, temp, showSidebar)>>
                                ELSE r.settingsItem
               /\ UNCHANGED <<messages, input, isLoading, activeChat, ctrlRef, sends,
                              nextId, now, showSidebar>>
       ELSE /\ error' = r.message
            /\ SameItems
            /\ UNCHANGED <<messages, input, isLoading, chats, activeChat, ctrlRef,
                           sends, nextId, now>>

\* time passes
ClockTick ==
    /\ now < MaxClock
    /\ now' = now + 1
    /\ UNCHANGED <<messages, input, isLoading, error, chats, activeChat, ctrlRef,
                   sends, nextId, storeVars>>

ListNext ==
    \/ Next /\ Len(sends') <= ListSends
    \/ HandleNewChat
    \/ \E k \in DOMAIN chats : HandleChatSelect(k)
    \/ \E k \in DOMAIN chats : \E newName \in RenameNames : HandleRenameChat(k, newName)
    \/ \E k \in DOMAIN chats : HandleDeleteChat(k)
    \/ \E k \in DOMAIN chats : HandleImportChat(ExportChat(chats[k]))
    \/ \E doc \in BadChatDocs : HandleImportChat(doc)
    \/ \E doc \in Bundles : HandleImportAll(doc)
    \/ ClockTick

ListSpec == Init /\ [][ListNext]_vars

(* ------------------- claims on the chat list and imports -------------- *)

\* the item 'ollama-active-chat' as the save-active-chat effect (lines
\* 59-67) leaves it: the id of the active conversation, or nothing
lsActiveChat == IF activeChat = <<>> THEN <<>> ELSE <<activeChat[1].id>>

\* every item of localStorage
PersistedKeys == <<lsChats, lsBackup, lsLastBackup, lsSettings, lsActiveChat>>

Ids(cs) == { cs[k].id : k \in DOMAIN cs }

\* C24: importing the document that exporting a stored conversation c (with
\* id and name) produced appends one conversation to the store, with c's name
\* and c's messages and an id that differs from c's id and from every id the
\* store held.
C24_ImportOfExport ==
    [][\A k \in DOMAIN chats :
         (chats[k].id # 0 /\ chats[k].name # <<>>
            /\ HandleImportChat(ExportChat(chats[k]))) =>
           /\ Len(chats') = Len(chats) + 1
           /\ SubSeq(chats', 1, Len(chats)) = chats
           /\ Last(chats').name = chats[k].name
           /\ Last(chats').messages = chats[k].messages
           /\ Last(chats').id # chats[k].id
           /\ Last(chats').id \notin Ids(chats)]_vars

C24_Witness ==
    \E j, k \in DOMAIN chats :
        /\ j < k
        /\ chats[j].id # chats[k].id
        /\ chats[j].name = chats[k].name
        /\ chats[j].name \in RenameNames
        /\ chats[j].messages = chats[k].messages
        /\ chats[j].messages # <<>>
        /\ chats[k].id = nextId - 1

\* C25: an import whose document fails validation (a conversation document
\* with an empty or missing id or name, or whose messages is not an array; a
\* bundle whose chats is not an array) is rejected, and leaves the store, the
\* selection and every persisted item as they were.
C25_InvalidImportRejected ==
    [][/\ \A doc \in BadChatDocs :
            HandleImportChat(doc) =>
              /\ error' = ParseChatFile
              /\ UNCHANGED <<chats, activeChat, messages, PersistedKeys>>
       /\ \A doc \in Bundles :
            (~doc.isArray /\ HandleImportAll(doc)) =>
              /\ error' = ParseBackupFile
              /\ UNCHANGED <<chats, activeChat, messages, PersistedKeys,
                             selectedModel, temperature, showSidebar>>]_vars

C25_Witness ==
    /\ error \in {ParseChatFile, ParseBackupFile}
    /\ listOps > 0
    /\ chats # <<>>
    /\ lsChats = Absent

SettingsFields == {"selectedModel", "temperature", "showSidebar"}

\* C26: after the import of a bundle whose settings object carries some of
\* the fields, every field the document lacks keeps its value and every field
\* it carries has the document's value, in memory and in the persisted object.
C26_SettingsMerged ==
    [][\A doc \in Bundles :
         (doc.isArray /\ doc.settings # <<>> /\ HandleImportAll(doc)) =>
           LET before == SettingsObject(selectedModel, temperature, showSidebar)
               after == SettingsObject(selectedModel', temperature', showSidebar')
               want == [f \in SettingsFields |->
                          IF f \in DOMAIN doc.settings[1] THEN doc.settings[1][f]
                          ELSE before[f]]
           IN /\ \A f \in SettingsFields : after[f] = want[f]
              /\ lsSettings' # <<>>
              /\ \A f \in SettingsFields :
                    f \in DOMAIN lsSettings'[1] /\ lsSettings'[1][f] = want[f]]_vars

\* C27: no two conversations of the store have the same id.
C27_UniqueIds ==
    \A j, k \in DOMAIN chats : j # k => chats[j].id # chats[k].id

\* C28: deleting the active conversation removes it from the store and clears
\* the selection and the visible buffer; deleting another conversation leaves
\* the selection and the visible buffer as they were.
C28_DeleteClearsSelection ==
    [][\A k \in DOMAIN chats :
         HandleDeleteChat(k) =>
           /\ chats[k].id \notin Ids(chats')
           /\ IF activeChat # <<>> /\ activeChat[1].id = chats[k].id
              THEN activeChat' = <<>> /\ messages' = <<>>
              ELSE activeChat' = activeChat /\ messages' = messages]_vars

C28_Witness ==
    /\ activeChat = <<>>
    /\ messages = <<>>
    /\ chats # <<>>
    /\ \E i \in DOMAIN sends :
          sends[i].pc \in Pending /\ sends[i].target \notin Ids(chats)

\* C29: the list of the store is ordered most recently updated first.
C29_ListOrdered == SortedByUpdatedAt(chats)

\* C30: a step that changes the messages or the name of a conversation sets
\* its updatedAt to the current time, and no step of a send or rename changes
\* the updatedAt of another conversation.
C30_UpdatedAtRefreshed ==
    [][(/\ ~ \E doc \in Bundles : HandleImportAll(doc)
        /\ Len(chats') = Len(chats)
        /\ \A k \in DOMAIN chats : chats'[k].id = chats[k].id) =>
         /\ \A k \in DOMAIN chats :
               (chats'[k].messages # chats[k].messages \/ chats'[k].name # chats[k].name)
                  => chats'[k].updatedAt = now
         /\ \A j, k \in DOMAIN chats :
               (chats'[j].updatedAt # chats[j].updatedAt
                  /\ chats'[k].updatedAt # chats[k].updatedAt)
                  => chats[j].id = chats[k].id]_vars

C30_Witness ==
    \E j, k \in DOMAIN chats :
        /\ chats[j].id # chats[k].id
        /\ chats[j].updatedAt = now
        /\ chats[j].createdAt < now
        /\ Len(chats[j].messages) > 2
        /\ chats[k].updatedAt < now

(* ====================================================================== *)
(* The settings: what the component holds after the page is opened, from  *)
(* what the item 'ollama-settings' held, and the steps that write the     *)
(* item afterwards.  op is "none" before the component is constructed and *)
(* "startup" once it is.                                                  *)
(* ====================================================================== *)

\* an item whose text JSON.parse rejects
CorruptSettings == [corrupt |-> TRUE]

\* loadSettings (storage.js 89-97): <<>> for null
LoadSettings(item) ==
    IF item = <<>> \/ "corrupt" \in DOMAIN item[1] THEN <<>> ELSE item

\* savedSettings.showSidebar !== false
SidebarFromSaved(saved) ==
    ~("showSidebar" \in DOMAIN saved /\ saved.showSidebar = FALSE)

\* lines 26-36: the three settings of the new component
StartupSettings(item) ==
    LET loaded == LoadSettings(item)
        savedSettings == IF loaded = <<>> THEN [none |-> TRUE] ELSE loaded[1]
    IN SettingsObject(OrCurrent(savedSettings, "selectedModel", "", DefaultModel),
                      OrCurrent(savedSettings, "temperature", 0, DefaultTemperature),
                      SidebarFromSaved(savedSettings))

\* what the item may hold when the page is opened: nothing, an unparsable
\* text, or an object with any of the three fields (temperature in tenths,
\* from 0 to 2)
SavedModels == {"m2", "m4"}
SavedTemperatures == {0, 10, 20}

\* e.target.value of the range input is a string: the string of n tenths is
\* kept apart from the number n, and no string of the slider is falsy
SliderString(n) == 1000 + n
SliderValues == { SliderString(0), SliderString(5), SliderString(20) }

\* the options of the model select
ModelOptions == {"m1", "m3"}
SavedSidebars == {TRUE, FALSE}
SavedObjects ==
    { [selectedModel |-> m, temperature |-> t, showSidebar |-> b] :
         m \in SavedModels, t \in SavedTemperatures, b \in SavedSidebars }
    \cup { [selectedModel |-> m] : m \in SavedModels }
    \cup { [temperature |-> t] : t \in SavedTemperatures }
    \cup { [showSidebar |-> b] : b \in SavedSidebars }
    \cup { [temperature |-> t, showSidebar |-> b] :
              t \in SavedTemperatures, b \in SavedSidebars }
SettingsItems == {<<>>, <<CorruptSettings>>} \cup { <<o>> : o \in SavedObjects }

\* the lists /api/tags may answer with
ModelLists == { <<>>, <<"m1">> }

\* nothing but the settings changes
SettingsFrame ==
    UNCHANGED <<messages, input, isLoading, error, chats, activeChat, ctrlRef,
                sends, nextId, now, lsChats, lsBackup, lsLastBackup, saveRet,
                loadRet, listOps>>

SettingsInit ==
    /\ lsSettings \in SettingsItems
    /\ selectedModel = DefaultModel
    /\ temperature = DefaultTemperature
    /\ showSidebar = TRUE
    /\ listOps = 0
    /\ op = "none"
    /\ saveRet = NoRet
    /\ loadRet = NoRet
    /\ lsChats = Absent
    /\ lsBackup = Absent
    /\ lsLastBackup = <<>>
    /\ messages = <<>>
    /\ input = <<>>
    /\ isLoading = FALSE
    /\ error = <<>>
    /\ chats = <<>>
    /\ activeChat = <<>>
    /\ ctrlRef = 0
    /\ sends = <<>>
    /\ nextId = 2
    /\ now = 0

\* the component is constructed (lines 26-36), then the save-settings
\* effect of the first render writes the item (46-52)
Startup ==
    /\ op = "none"
    /\ op' = "startup"
    /\ LET s == StartupSettings(lsSettings)
       IN /\ selectedModel' = s.selectedModel
          /\ temperature' = s.temperature
          /\ showSidebar' = s.showSidebar
          /\ lsSettings' = <<s>>
    /\ SettingsFrame

\* the answer of /api/tags arrives (lines 105-121), then the effect
FetchModels ==
    /\ op = "startup"
    /\ \E models \in ModelLists :
         /\ selectedModel' = IF Len(models) > 0 THEN models[1] ELSE selectedModel
         /\ lsSettings' = IF selectedModel' # selectedModel
                          THEN <<SettingsObject(selectedModel', temperature, showSidebar)>>
                          ELSE lsSettings
    /\ UNCHANGED <<op, temperature, showSidebar>>
    /\ SettingsFrame

\* the sidebar button (line 385), then the effect
ToggleSidebar ==
    /\ op = "startup"
    /\ showSidebar' = ~showSidebar
    /\ lsSettings' = <<SettingsObject(selectedModel, temperature, showSidebar')>>
    /\ UNCHANGED <<op, selectedModel, temperature>>
    /\ SettingsFrame

\* onChange of the model select (line 417), then the effect
ChangeModel ==
    /\ op = "startup"
    /\ \E m \in ModelOptions : selectedModel' = m
    /\ lsSettings' = <<SettingsObject(selectedModel', temperature, showSidebar)>>
    /\ UNCHANGED <<op, temperature, showSidebar>>
    /\ SettingsFrame

\* onChange of the temperature slider (line 442), then the effect
ChangeTemperature ==
    /\ op = "startup"
    /\ \E v \in SliderValues : temperature' = v
    /\ lsSettings' = <<SettingsObject(selectedModel, temperature', showSidebar)>>
    /\ UNCHANGED <<op, selectedModel, showSidebar>>
    /\ SettingsFrame

\* the page is closed: the component is gone, the item stays
ClosePage ==
    /\ op = "startup"
    /\ op' = "none"
    /\ selectedModel' = DefaultModel
    /\ temperature' = DefaultTemperature
    /\ showSidebar' = TRUE
    /\ UNCHANGED lsSettings
    /\ SettingsFrame

SettingsNext ==
    \/ Startup
    \/ FetchModels
    \/ ToggleSidebar
    \/ ChangeModel
    \/ ChangeTemperature
    \/ ClosePage

SettingsSpec == SettingsInit /\ [][SettingsNext]_vars

\* C31: at startup each setting has its persisted value when the item holds
\* one, and its default (llama3.2:latest, 0.7, shown) when it does not;
\* loadSettings gives the absent signal for an item that does not parse.
C31_StartupSettings ==
    [][Startup =>
         LET after == SettingsObject(selectedModel', temperature', showSidebar')
             defaults == SettingsObject(DefaultModel, DefaultTemperature, TRUE)
             loaded == LoadSettings(lsSettings)
         IN /\ (lsSettings # <<>> /\ "corrupt" \in DOMAIN lsSettings[1]) => loaded = <<>>
            /\ \A f \in SettingsFields :
                  after[f] = IF loaded # <<>> /\ f \in DOMAIN loaded[1]
                             THEN loaded[1][f] ELSE defaults[f]]_vars

(* ------------------- further claims on the sends ---------------------- *)

\* the body of send i ends: reader.read() resolves with done, no abort
StreamEnds(i) ==
    /\ sends[i].pc = "read"
    /\ sends[i].signal = "live"
    /\ sends'[i].pc = "done"

\* C32: when the stream of a send ends without error and without abort, the
\* conversation (the visible buffer and the stored target) ends with the
\* messages the send started from followed by one assistant message holding
\* all the non-empty deltas of the stream in order, no error message is
\* appended, and isLoading is false.
C32_StreamEndLeavesAnswer ==
    [][\A i \in DOMAIN sends :
         StreamEnds(i) =>
           LET answer == Msg("assistant",
                             ProcessChunk(Concat(sends[i].chunks), <<>>).full)
               turn == Append(sends[i].newMessages, answer)
           IN /\ messages' = turn
              /\ StoredMessages(chats', sends[i].target) = {turn}
              /\ ErrCount(messages') = ErrCount(messages)
              /\ ~isLoading']_vars

\* C33: while a send runs and when it ends, the messages its conversation
\* held when it started, followed by its user message, are a prefix of the
\* messages of the conversation: of the visible buffer, and of the stored
\* target of the send.
C33_EarlierMessagesKept ==
    [][\A i \in DOMAIN sends :
         sends[i].pc \in Pending =>
           /\ IsPrefix(sends[i].newMessages, messages')
           /\ \E msgs \in StoredMessages(chats', sends[i].target) :
                 IsPrefix(sends[i].newMessages, msgs)]_vars

Unwinding == \E i \in DOMAIN sends : sends[i].pc \in Pending /\ sends[i].signal # "live"

PromptNext == Next /\ (Unwinding => \E i \in 1..MaxSends : AbortUnwind(i))

PromptSpec == Init /\ [][PromptNext]_vars

\* C35: the callback of the timer of a send aborts no request but the one
\* of that send.
C35_TimerAbortsOwnRequest ==
    [][\A i, j \in DOMAIN sends :
         (TimeoutFire(i) /\ sends[j].signal = "live" /\ sends'[j].signal # "live")
           => j = i]_vars

C35_Witness ==
    /\ Len(sends) = 2
    /\ sends[1].pc = "done"
    /\ sends[2].pc \in Pending
    /\ sends[2].signal = "timeout"
    /\ sends[2].timer = "off"

\* C36: while a request is in flight and abort has not been requested for
\* it, isLoading is true.
C36_BusyWhileInFlight ==
    \A i \in DOMAIN sends :
      (sends[i].pc \in Pending /\ sends[i].signal = "live") => isLoading

C36_Witness ==
    /\ Len(sends) = 2
    /\ sends[1].pc = "done"
    /\ sends[2].pc = "read"
    /\ sends[2].signal = "live"
    /\ ErrCount(messages) > 0
    /\ isLoading

(* ------------------------------ clear all ----------------------------- *)

\* the Clear All Data button (confirmed): clearAllData() removes every key,
\* then the four set-state calls; the effects that follow save the empty
\* list, which writes the chats item and, no timestamp being left, the backup
\* and its timestamp; the settings did not change and their item stays removed
ClearAll ==
    /\ listOps < MaxListOps
    /\ listOps' = listOps + 1
    /\ chats' = <<>>
    /\ activeChat' = <<>>
    /\ messages' = <<>>
    /\ error' = <<>>
    /\ lsChats' = Stringify(<<>>)
    /\ lsBackup' = Stringify(<<>>)
    /\ lsLastBackup' = <<now>>
    /\ lsSettings' = <<>>
    /\ UNCHANGED <<input, isLoading, ctrlRef, sends, nextId, now, op, saveRet, loadRet,
                   selectedModel, temperature, showSidebar>>

AppNext ==
    \/ ListNext
    \/ ClearAll

AppSpec == Init /\ [][AppNext]_vars

\* C37: in every reachable state the active conversation is absent or a
\* conversation with its id is in the conversation store, whatever sends,
\* chunks, selections, new chats, deletions, bundle imports and clear-all
\* came before.
C37_ActiveChatInStore ==
    activeChat = <<>> \/ activeChat[1].id \in Ids(chats)

\* the name the rename button gives in the runs
Renamed == CHOOSE n \in RenameNames : TRUE

\* C38: a renamed conversation keeps its new name through the later steps of
\* sends (a message appended, a delta applied, an error message written),
\* also of a send that was in flight when it was renamed: no such step gives
\* the conversation another name.
C38_RenameKept ==
    [][listOps' = listOps =>
         \A k \in DOMAIN chats :
            chats[k].name = Renamed =>
               /\ k \in DOMAIN chats'
               /\ chats'[k].id = chats[k].id
               /\ chats'[k].name = Renamed]_vars

\* a step of send i (a chunk read, the response or its failure handled, the
\* abort unwound) while another conversation than its target is active
StepElsewhere(i) ==
    /\ sends[i].pc \in Pending
    /\ sends'[i] # sends[i]
    /\ listOps' = listOps
    /\ activeChat # <<>>
    /\ activeChat[1].id # sends[i].target

\* C39: when the user has selected or created another conversation while a
\* send is running, the later steps of the send (deltas, the final error
\* message) leave the active conversation, the visible buffer and every
\* conversation other than the target of the send as they are.
C39_SendWritesOnlyItsTarget ==
    [][\A i \in DOMAIN sends :
         StepElsewhere(i) =>
            /\ activeChat' = activeChat
            /\ messages' = messages
            /\ \A k \in DOMAIN chats :
                  chats[k].id # sends[i].target =>
                     k \in DOMAIN chats' /\ chats'[k] = chats[k]]_vars

\* C40: when the save effect has run and saveChats has written the primary
\* snapshot and returned, the conversation list in memory is the list the
\* snapshot holds, also when the save trimmed the list or took the degraded
\* path.
C40_MemoryEqualsSnapshot ==
    (op = "save" /\ saveRet.kind = "returned" /\ saveRet.wrote) =>
       /\ lsChats.kind = "json"
       /\ lsChats.data = chats

=============================================================================
